---- MODULE Spec2Model ----
(***************************************************************************)
(* Twilio voice client: the Home component of pages/index.tsx (credential  *)
(* store, call controller) and the token handler of pages/api/token.ts.    *)
(*                                                                         *)
(* Strings are sequences of one-character strings, so that trim(),         *)
(* startsWith() and length are computed as the code computes them.         *)
(* React state is the set of variables below; every handler is one action, *)
(* run from the click or SDK event that triggers it up to its next await.  *)
(* The continuation after an await is a separate action.  Handlers read    *)
(* the credentials of the render they were created in, so an in-flight     *)
(* request carries the credentials captured when it was issued.            *)
(***************************************************************************)
EXTENDS Integers, Sequences, FiniteSets, Bags, TLC

\* ------------------------------------------------------------------ bounds
\* Devices constructed (new Device) over a run, counting requests in flight.
MaxDevices == 2
\* Calls placed (device.connect) over a run.
MaxCalls == 2
\* Cap of the duration counter (seconds).
MaxDuration == 1

\* ------------------------------------------------------------- constants
\* accountSid.trim().length > 20
MinLen == 20

\* ---------------------------------------------------------------- strings
Rep(ch, n) == [i \in 1..n |-> ch]

Str0 == <<>>
StrSpace == <<" ">>
Placeholder == <<"*", "*", "*">>
PrefixAC == <<"A", "C">>
PrefixSK == <<"S", "K">>
PrefixAP == <<"A", "P">>

\* String.prototype.trim: whitespace removed at both ends.
RECURSIVE TrimStart(_)
TrimStart(s) ==
    IF s # <<>> /\ Head(s) = " " THEN TrimStart(Tail(s)) ELSE s

RECURSIVE TrimEnd(_)
TrimEnd(s) ==
    IF s # <<>> /\ s[Len(s)] = " " THEN TrimEnd(SubSeq(s, 1, Len(s) - 1)) ELSE s

Trim(s) == TrimEnd(TrimStart(s))

\* String.prototype.startsWith
StartsWith(s, p) == Len(s) >= Len(p) /\ SubSeq(s, 1, Len(p)) = p

\* JavaScript truthiness of a string: the empty string is falsy.
Truthy(s) == s # <<>>

Fields == {"accountSid", "apiKey", "apiSecret", "appSid"}

EmptyCredentials == [f \in Fields |-> Str0]

\* ------------------------------------------------------ credential format
\* The rule applied to the value as typed, whitespace included.
IsValidSidNoTrim(s, prefix) == StartsWith(s, prefix) /\ Len(s) > MinLen

\* One prefix/length rule of areCredentialsComplete.
IsValidSid(s, prefix) == StartsWith(Trim(s), prefix) /\ Len(Trim(s)) > MinLen

AllTruthy(c) == \A f \in Fields : Truthy(c[f])

HasAllFields(c) == \A f \in Fields : Truthy(Trim(c[f]))

\* The presence test without trim(): a blank field counts as filled.
areCredentialsCompleteRawPresence(c) ==
    /\ AllTruthy(c)
    /\ IsValidSid(c.accountSid, PrefixAC)
    /\ IsValidSid(c.apiKey, PrefixSK)
    /\ IsValidSid(c.appSid, PrefixAP)

areCredentialsComplete(c) ==
    /\ HasAllFields(c)
    /\ IsValidSid(c.accountSid, PrefixAC)
    /\ IsValidSid(c.apiKey, PrefixSK)
    /\ IsValidSid(c.appSid, PrefixAP)

\* ----------------------------------------------------------- token service
\* ttl: 3600
TokenTtl == 3600

\* A member counted as given as soon as it is there, empty or not.
PresentIfThere(body, f) == f \in DOMAIN body

\* A member of req.body that is there and truthy; a member that is left out
\* reads as undefined.
Present(body, f) == f \in DOMAIN body /\ Truthy(body[f])

\* A token whose grant also allows incoming calls.
MintTokenIncoming(body) ==
    [ accountSid |-> body.accountSid,
      signingKeySid |-> body.apiKey,
      secret |-> body.apiSecret,
      identity |-> "web-client",
      ttl |-> TokenTtl,
      outgoingApplicationSid |-> body.appSid,
      incomingAllow |-> TRUE ]

\* The AccessToken with its VoiceGrant, as toJwt serializes it.
MintToken(body) ==
    [ accountSid |-> body.accountSid,
      signingKeySid |-> body.apiKey,
      secret |-> body.apiSecret,
      identity |-> "web-client",
      ttl |-> TokenTtl,
      outgoingApplicationSid |-> body.appSid,
      incomingAllow |-> FALSE ]

\* The members of the body looked at before the method.
handlerFieldsFirst(method, body, signOk) ==
    IF \E f \in Fields : ~Present(body, f) THEN
        [status |-> 400, error |-> "Missing required Twilio credentials in request body"]
    ELSE IF method # "POST" THEN
        [status |-> 405, error |-> "Method not allowed"]
    ELSE IF signOk THEN
        [status |-> 200, token |-> MintToken(body), identity |-> "web-client"]
    ELSE
        [status |-> 500, error |-> "Failed to generate access token"]

\* handler of pages/api/token.ts: the response to a request.
\* signOk: whether AccessToken/toJwt completes without throwing.
handler(method, body, signOk) ==
    IF method # "POST" THEN
        [status |-> 405, error |-> "Method not allowed"]
    ELSE IF \E f \in Fields : ~Present(body, f) THEN
        [status |-> 400, error |-> "Missing required Twilio credentials in request body"]
    ELSE IF signOk THEN
        [status |-> 200, token |-> MintToken(body), identity |-> "web-client"]
    ELSE
        [status |-> 500, error |-> "Failed to generate access token"]

\* The status code of the response.
TokenHandler(method, body, signOk) == handler(method, body, signOk).status

\* The token service before any request.
NoRequest == [method |-> "none"]
NoResponse == [status |-> 0]
NoExchange == [req |-> NoRequest, res |-> NoResponse]

\* response.ok of fetch
ResponseOk(status) == status >= 200 /\ status <= 299

\* ------------------------------------------------------------ input values
AccountOk == PrefixAC \o Rep("x", 19)
AccountShort == PrefixAC \o Rep("x", 18)
KeyOk == PrefixSK \o Rep("x", 19)
KeyShort == PrefixSK \o Rep("x", 18)
SecretOk == <<"s", "3", "c", "r", "e", "t">>
AppOk == PrefixAP \o Rep("x", 19)
AppShort == PrefixAP \o Rep("x", 18)
WrongPrefix == <<"X", "Y">> \o Rep("x", 19)

Creds(a, k, s, p) ==
    [accountSid |-> a, apiKey |-> k, apiSecret |-> s, appSid |-> p]

\* What the user fills into the four inputs of the form: a set that passes
\* the format rules and one with a whitespace-only field.
FormInputs ==
    { Creds(AccountOk, KeyOk, SecretOk, AppOk),
      Creds(StrSpace, KeyOk, SecretOk, AppOk) }

\* Form contents for the format rules: values that pass, values with
\* whitespace before or after, values one character too short, values with
\* another prefix, blank and empty values.
FormatInputs ==
    LET ok == Creds(AccountOk, KeyOk, SecretOk, AppOk)
        others(okValue, short) ==
            {okValue, StrSpace \o okValue, short, short \o StrSpace, StrSpace \o short,
             WrongPrefix, StrSpace, Str0}
    IN  {[ok EXCEPT !.accountSid = a] : a \in others(AccountOk, AccountShort)}
        \cup {[ok EXCEPT !.apiKey = k] : k \in others(KeyOk, KeyShort)}
        \cup {[ok EXCEPT !.appSid = p] : p \in others(AppOk, AppShort)}
        \cup {[ok EXCEPT !.apiSecret = s] : s \in {StrSpace, Str0}}

\* localStorage['twilioCredentials']: absent, text that is no JSON, or a JSON
\* object (a field that is missing from the object reads as the empty string).
\* storage is what JSON.parse makes of the text: val is the parsed object.
NoStorage == [kind |-> "absent", val |-> EmptyCredentials]
GarbageStorage == [kind |-> "garbage", val |-> EmptyCredentials]

Quote == "\""
Backslash == "\\"

\* JSON.stringify of a string, between its quotes: the quote and the
\* backslash are escaped with a backslash.
RECURSIVE JsonEscape(_)
JsonEscape(s) ==
    IF s = <<>> THEN <<>>
    ELSE (IF Head(s) \in {Quote, Backslash} THEN <<Backslash, Head(s)>> ELSE <<Head(s)>>)
         \o JsonEscape(Tail(s))

\* The string put between quotes with no character escaped.
JsonStringifyStringUnescaped(s) == <<Quote>> \o s \o <<Quote>>

JsonStringifyString(s) == <<Quote>> \o JsonEscape(s) \o <<Quote>>

\* JSON.stringify of the object of saveCredentialsToStorage: the text of
\* each of its four members.
JsonStringify(c) ==
    [accountSid |-> JsonStringifyString(c.accountSid),
     apiKey |-> JsonStringifyString(c.apiKey),
     apiSecret |-> JsonStringifyString(c.apiSecret),
     appSid |-> JsonStringifyString(c.appSid)]

JsonSyntaxError == [ok |-> FALSE, val |-> <<>>]

\* JSON.parse of a string, after its opening quote: the characters up to the
\* closing quote, escapes undone; nothing may follow the closing quote.
RECURSIVE JsonScan(_, _)
JsonScan(t, acc) ==
    IF t = <<>> THEN JsonSyntaxError
    ELSE IF Head(t) = Quote THEN
        (IF Tail(t) = <<>> THEN [ok |-> TRUE, val |-> acc] ELSE JsonSyntaxError)
    ELSE IF Head(t) = Backslash THEN
        (IF Len(t) >= 2 /\ t[2] \in {Quote, Backslash}
         THEN JsonScan(SubSeq(t, 3, Len(t)), Append(acc, t[2]))
         ELSE JsonSyntaxError)
    ELSE JsonScan(Tail(t), Append(acc, Head(t)))

JsonParseString(t) ==
    IF t # <<>> /\ Head(t) = Quote THEN JsonScan(Tail(t), <<>>) ELSE JsonSyntaxError

\* JSON.parse of the text of an object with the four members: it throws if
\* one of them is no JSON string.
JsonParse(t) ==
    LET accountSid == JsonParseString(t.accountSid)
        apiKey == JsonParseString(t.apiKey)
        apiSecret == JsonParseString(t.apiSecret)
        appSid == JsonParseString(t.appSid)
    IN  IF accountSid.ok /\ apiKey.ok /\ apiSecret.ok /\ appSid.ok
        THEN [ok |-> TRUE,
              val |-> [accountSid |-> accountSid.val, apiKey |-> apiKey.val,
                       apiSecret |-> apiSecret.val, appSid |-> appSid.val]]
        ELSE [ok |-> FALSE, val |-> EmptyCredentials]

\* localStorage after setItem('twilioCredentials', JSON.stringify(c)).
Stored(c) ==
    LET p == JsonParse(JsonStringify(c))
    IN  IF p.ok THEN [kind |-> "json", val |-> p.val] ELSE GarbageStorage

\* Credential sets with the placeholder in a field.
PlaceholderInputs ==
    LET ok == Creds(AccountOk, KeyOk, SecretOk, AppOk)
    IN  {[ok EXCEPT ![f] = Placeholder] : f \in Fields}
        \cup {[ok EXCEPT !.accountSid = Placeholder, !.apiSecret = Str0]}

\* Credential sets for saving and loading: values with a quote or a
\* backslash in them, blank and empty fields, a value too short, a value with
\* another prefix, the placeholder in a field.
StorageInputs ==
    LET ok == Creds(AccountOk, KeyOk, SecretOk, AppOk)
    IN  { ok,
          [ok EXCEPT !.accountSid = AccountShort \o <<Quote>>],
          [ok EXCEPT !.apiSecret = <<"s", Backslash, Quote, "t">>],
          [ok EXCEPT !.appSid = AppShort \o <<Backslash>>],
          [ok EXCEPT !.apiSecret = StrSpace],
          [ok EXCEPT !.apiSecret = Str0],
          [ok EXCEPT !.accountSid = Str0],
          [ok EXCEPT !.accountSid = AccountShort],
          [ok EXCEPT !.apiKey = WrongPrefix],
          EmptyCredentials }
        \cup PlaceholderInputs

\* What localStorage holds when the page is opened.
InitialStorage ==
    { NoStorage,
      GarbageStorage,
      Stored(Creds(AccountOk, KeyOk, SecretOk, AppOk)),
      Stored(Creds(Placeholder, KeyOk, SecretOk, AppOk)),
      Stored(Creds(AccountOk, KeyOk, Str0, AppOk)) }

\* --------------------------------------------------------- status messages
MsgEnter == "Enter Twilio credentials to start"
MsgReady == "Ready to call"
MsgPleaseValid == "Please enter valid Twilio credentials"
MsgMissing == "Missing Twilio credentials. Please configure first."
MsgInitializing == "Initializing Twilio Device..."
MsgDeviceReady == "Device ready - Click to call agent"
MsgDeviceError == "Device error: "
MsgInitFailed == "Failed to initialize device: "
MsgFillAll == "Please fill in all Twilio credentials"
MsgTesting == "Testing credentials..."
MsgValidated == "Credentials validated! Ready to call"
MsgValidationFailed == "Credential validation failed: "
MsgNoDevice == "Device not initialized"
MsgConnecting == "Connecting..."
MsgInCall == "In call with agent"
MsgCallEnded == "Call ended"
MsgCallCancelled == "Call cancelled"
MsgCallRejected == "Call rejected"
MsgCallError == "Call error: "
MsgCallFailed == "Failed to make call"

\* -------------------------------------------------------------------- state
VARIABLES
    callStatus,      \* useState<CallStatus>
    statusMessage,   \* useState<string>
    isLoading,       \* useState<boolean>
    callDuration,    \* useState<number>
    cred,            \* accountSid, apiKey, apiSecret, appSid (useState)
    isConfigured,    \* useState<boolean>
    storage,         \* localStorage['twilioCredentials']
    deviceRef,       \* deviceRef.current: 0 (null) or a Device
    currentCallRef,  \* currentCallRef.current: 0 (null) or a Call
    timerRef,        \* timerRef.current: whether it holds an interval
    devices,         \* the Devices of the SDK: the state of each
    calls,           \* the Calls of the SDK: the state of each and the Device it is on
    timers,          \* the number of intervals that are running
    requests,        \* /api/token requests in flight (a bag: they complete in any order)
    resets,          \* pending setTimeout callbacks that reset status, message and duration
    shortResets,     \* pending setTimeout callbacks that reset status and message
    exchange         \* the token service: the request it was called with, its response

vars ==
    <<callStatus, statusMessage, isLoading, callDuration, cred, isConfigured,
      storage, deviceRef, currentCallRef, timerRef, devices,
      calls, timers, requests, resets, shortResets, exchange>>

uiVars == <<callStatus, statusMessage, isLoading, callDuration>>
credVars == <<cred, isConfigured, storage>>
deviceVars == <<deviceRef, devices, requests>>
callVars == <<currentCallRef, timerRef, calls, timers, resets, shortResets>>

\* Devices and Calls are numbered in the order they are created.
DeviceIds == 1..Len(devices)
CallIds == 1..Len(calls)

\* A Device that has been constructed and not destroyed.
Alive(d) == devices[d] # "destroyed"
AliveDevices == {d \in DeviceIds : Alive(d)}

\* A call that has been placed and has not ended.
LiveCalls == {c \in CallIds : calls[c].st # "ended"}
\* The calls of Device d that have their listeners attached and have not ended.
DeviceCalls(d) ==
    {c \in CallIds : calls[c].dev = d /\ calls[c].st \in {"ringing", "open", "closing"}}

\* Intervals that run and that timerRef does not hold.
LeakedTimers == timers - (IF timerRef THEN 1 ELSE 0)

\* One request more in flight, one request less.
Send(r) == requests (+) SetToBag({r})
Complete(r) == requests (-) SetToBag({r})
InFlight == BagToSet(requests)

\* ---------------------------------------------------------- load on mount
\* The placeholder test of the mount effect.
HasPlaceholder(c) ==
    c.accountSid = Placeholder \/ c.apiKey = Placeholder \/ c.appSid = Placeholder

\* The mount effect, from what localStorage holds: the credentials,
\* isConfigured and the message it sets, and what it leaves in localStorage.
Loaded(st) ==
    IF st.kind = "absent" THEN
        [cred |-> EmptyCredentials, isConfigured |-> FALSE,
         statusMessage |-> MsgEnter, storage |-> st]
    ELSE IF st.kind = "garbage" THEN
        [cred |-> EmptyCredentials, isConfigured |-> FALSE,
         statusMessage |-> MsgEnter, storage |-> NoStorage]
    ELSE IF AllTruthy(st.val) THEN
        IF HasPlaceholder(st.val) THEN
            [cred |-> EmptyCredentials, isConfigured |-> FALSE,
             statusMessage |-> MsgPleaseValid, storage |-> NoStorage]
        ELSE
            [cred |-> st.val, isConfigured |-> TRUE,
             statusMessage |-> MsgReady, storage |-> st]
    ELSE
        [cred |-> st.val, isConfigured |-> FALSE,
         statusMessage |-> MsgEnter, storage |-> st]

\* The state after the first render and the mount effect.
LoadOnMount(st) ==
    /\ callStatus = "idle"
    /\ isLoading = FALSE
    /\ callDuration = 0
    /\ cred = Loaded(st).cred
    /\ isConfigured = Loaded(st).isConfigured
    /\ statusMessage = Loaded(st).statusMessage
    /\ storage = Loaded(st).storage

RefsInit ==
    /\ deviceRef = 0
    /\ currentCallRef = 0
    /\ timerRef = FALSE
    /\ devices = <<>>
    /\ calls = <<>>
    /\ timers = 0
    /\ requests = EmptyBag
    /\ resets = 0
    /\ shortResets = 0

Init ==
    /\ RefsInit
    /\ exchange = NoExchange
    /\ \E st \in InitialStorage : LoadOnMount(st)

\* The page opened with nothing in localStorage.
InitFresh == RefsInit /\ exchange = NoExchange /\ LoadOnMount(NoStorage)

\* ------------------------------------------------------------ the form
\* onChange of the inputs (setAccountSid, setApiKey, setApiSecret, setAppSid):
\* the user edits the form until it holds c. The handlers only write the four
\* fields and nothing but the render reads them in between. (The form is
\* shown or hidden by a button that is always there: showConfigForm decides
\* nothing else and is left out.)
EditForm(c) ==
    /\ UNCHANGED exchange
    /\ cred # c
    /\ cred' = c
    /\ UNCHANGED <<uiVars, isConfigured, storage, deviceVars, callVars>>

\* disabled={isLoading || !accountSid || !apiKey || !apiSecret || !appSid}
ConfigureEnabled == ~isLoading /\ AllTruthy(cred)

\* ------------------------------------------------------------ configure
\* The content of the form at the time the probe completes.
SavedCredentialsFromForm(c) == cred

\* What saveCredentialsToStorage writes: the credentials of the render the
\* handler was created in (c), not the ones in the form now.
SavedCredentials(c) == c

\* if (timerRef.current) { clearInterval(timerRef.current); timerRef.current = null }
StopTimer ==
    /\ timers' = IF timerRef THEN timers - 1 ELSE timers
    /\ timerRef' = FALSE

\* The calls destroy() of the referenced Device disconnects: the SDK emits
\* their 'disconnect' inside destroy(), so their listeners run there.
DisconnectedByDestroy == IF deviceRef = 0 THEN {} ELSE DeviceCalls(deviceRef)

\* What the 'disconnect' listeners run by destroy() leave in callStatus.
StatusAfterDestroy ==
    IF DisconnectedByDestroy = {} THEN callStatus ELSE "call-ended"

\* The reference dropped without destroy(): what the replacement of a Device
\* must not be.
DestroyCurrentDeviceRefOnly ==
    /\ deviceRef' = 0
    /\ UNCHANGED <<devices, calls, currentCallRef, timerRef, timers, resets>>

\* if (deviceRef.current) { deviceRef.current.destroy(); deviceRef.current = null }
DestroyCurrentDevice ==
    /\ devices' = IF deviceRef # 0 THEN [devices EXCEPT ![deviceRef] = "destroyed"]
                  ELSE devices
    /\ deviceRef' = 0
    /\ calls' = [c \in CallIds |->
                    IF c \in DisconnectedByDestroy
                    THEN [calls[c] EXCEPT !.st = "ended"] ELSE calls[c]]
    /\ IF DisconnectedByDestroy = {} THEN
            UNCHANGED <<currentCallRef, timerRef, timers, resets>>
       ELSE
            /\ currentCallRef' = 0
            /\ StopTimer
            /\ resets' = resets + Cardinality(DisconnectedByDestroy)

\* handleConfigure up to its fetch.
handleConfigure ==
    /\ UNCHANGED exchange
    /\ IF ~areCredentialsComplete(cred) THEN
            /\ statusMessage' = MsgFillAll
            /\ UNCHANGED <<callStatus, isLoading, callDuration, credVars, deviceVars, callVars>>
       ELSE
            /\ BagCardinality(requests) + Len(devices) < MaxDevices
            /\ isLoading' = TRUE
            /\ statusMessage' = MsgTesting
            /\ requests' = Send([kind |-> "probe", cred |-> cred])
            /\ UNCHANGED <<callStatus, callDuration, credVars, deviceRef, devices, callVars>>

\* The Save & Test Credentials button, clicked while it is enabled.
ClickConfigure == ConfigureEnabled /\ handleConfigure

\* The outcome of a fetch of /api/token: the handler's status code, or 0
\* when the request itself fails (fetch rejects).
FetchOutcomes(body) ==
    {0} \cup {TokenHandler("POST", body, signOk) : signOk \in BOOLEAN}

\* The credentials saved before the response of the probe is looked at.
ProbeFailedSaves(r) ==
    /\ UNCHANGED exchange
    /\ r \in InFlight
    /\ r.kind = "probe"
    /\ \E status \in FetchOutcomes(r.cred) : ~ResponseOk(status)
    /\ storage' = Stored(r.cred)
    /\ isConfigured' = TRUE
    /\ statusMessage' = MsgValidationFailed
    /\ isLoading' = FALSE
    /\ requests' = Complete(r)
    /\ UNCHANGED <<callStatus, callDuration, cred, deviceRef, devices, callVars>>

\* handleConfigure after its fetch, the response not ok (or fetch rejected):
\* the catch block.
ProbeFailed(r) ==
    /\ UNCHANGED exchange
    /\ r \in InFlight
    /\ r.kind = "probe"
    /\ requests' = Complete(r)
    /\ \E status \in FetchOutcomes(r.cred) : ~ResponseOk(status)
    /\ statusMessage' = MsgValidationFailed
    /\ isLoading' = FALSE
    /\ UNCHANGED <<callStatus, callDuration, credVars, deviceRef, devices, callVars>>

\* handleConfigure after its fetch, the response ok: save, mark configured and
\* run initializeDevice up to its own fetch.
ProbeSucceeded(r) ==
    LET c == r.cred IN
    /\ UNCHANGED exchange
    /\ r \in InFlight
    /\ r.kind = "probe"
    /\ requests' = IF ~areCredentialsComplete(c) THEN Complete(r)
                   ELSE Complete(r) (+) SetToBag({[kind |-> "token", cred |-> c]})
    /\ \E status \in FetchOutcomes(c) : ResponseOk(status)
    /\ storage' = Stored(SavedCredentials(c))
    /\ isConfigured' = TRUE
    /\ IF ~areCredentialsComplete(c) THEN
            /\ statusMessage' = MsgMissing
            /\ callStatus' = "error"
            /\ UNCHANGED <<isLoading, deviceRef, devices, callVars>>
       ELSE
            /\ DestroyCurrentDevice
            /\ callStatus' = StatusAfterDestroy
            /\ isLoading' = TRUE
            /\ statusMessage' = MsgInitializing
            /\ UNCHANGED shortResets
    /\ UNCHANGED <<callDuration, cred>>

\* The catch block of initializeDevice without setIsLoading(false).
TokenFailedKeepsLoading(r) ==
    /\ UNCHANGED exchange
    /\ r \in InFlight
    /\ r.kind = "token"
    /\ requests' = Complete(r)
    /\ \E status \in FetchOutcomes(r.cred) : ~ResponseOk(status)
    /\ callStatus' = "error"
    /\ statusMessage' = MsgInitFailed
    /\ UNCHANGED <<isLoading, callDuration, credVars, deviceRef, devices, callVars>>

\* initializeDevice after its fetch, the response not ok (or fetch rejected):
\* the catch block.
TokenFailed(r) ==
    /\ UNCHANGED exchange
    /\ r \in InFlight
    /\ r.kind = "token"
    /\ requests' = Complete(r)
    /\ \E status \in FetchOutcomes(r.cred) : ~ResponseOk(status)
    /\ callStatus' = "error"
    /\ statusMessage' = MsgInitFailed
    /\ isLoading' = FALSE
    /\ UNCHANGED <<callDuration, credVars, deviceRef, devices, callVars>>

\* initializeDevice after its fetch, the response ok: new Device, the three
\* listeners, device.register() called.
TokenSucceeded(r) ==
    /\ UNCHANGED exchange
    /\ r \in InFlight
    /\ r.kind = "token"
    /\ requests' = Complete(r)
    /\ \E status \in FetchOutcomes(r.cred) : ResponseOk(status)
    /\ devices' = Append(devices, "registering")
    /\ UNCHANGED <<uiVars, credVars, deviceRef, callVars>>

\* The registered Device not stored.
RegisteredDeviceRefKept(d) == deviceRef

\* What initializeDevice stores once register() has resolved.
RegisteredDeviceRef(d) == d

\* The Device registers: its 'registered' listener runs, register() resolves
\* and initializeDevice stores the Device.
DeviceRegistered(d) ==
    /\ UNCHANGED exchange
    /\ devices[d] = "registering"
    /\ devices' = [devices EXCEPT ![d] = "registered"]
    /\ statusMessage' = MsgDeviceReady
    /\ isLoading' = FALSE
    /\ callStatus' = "idle"
    /\ deviceRef' = RegisteredDeviceRef(d)
    /\ UNCHANGED <<callDuration, credVars, requests, callVars>>

\* register() rejects: the catch block of initializeDevice. The Device stays
\* constructed.
RegisterRejected(d) ==
    /\ UNCHANGED exchange
    /\ devices[d] = "registering"
    /\ devices' = [devices EXCEPT ![d] = "unregistered"]
    /\ callStatus' = "error"
    /\ statusMessage' = MsgInitFailed
    /\ isLoading' = FALSE
    /\ UNCHANGED <<callDuration, credVars, deviceRef, requests, callVars>>

\* The 'error' listener of a Device.
DeviceError(d) ==
    /\ UNCHANGED exchange
    /\ Alive(d)
    /\ callStatus' = "error"
    /\ statusMessage' = MsgDeviceError
    /\ isLoading' = FALSE
    /\ UNCHANGED <<callDuration, credVars, deviceVars, callVars>>

\* An 'incoming' listener that answers the call.
DeviceIncomingAnswered(d) ==
    /\ UNCHANGED exchange
    /\ devices[d] = "registered"
    /\ callStatus' = "in-call"
    /\ statusMessage' = MsgInCall
    /\ UNCHANGED <<isLoading, callDuration, credVars, deviceVars, callVars>>

\* The 'incoming' listener of a Device: it logs and does nothing else; the
\* call it is given is neither accepted nor stored.
DeviceIncoming(d) ==
    /\ devices[d] = "registered"
    /\ UNCHANGED vars

\* ------------------------------------------------------- reset and clear
\* The Reset Configuration button, rendered when configured. destroy() is
\* its last statement: the 'disconnect' listeners it runs set the status and
\* the message after resetConfiguration has set them.
resetConfiguration ==
    /\ UNCHANGED exchange
    /\ isConfigured
    /\ isConfigured' = FALSE
    /\ callStatus' = (IF DisconnectedByDestroy = {} THEN "idle" ELSE "call-ended")
    /\ statusMessage' = (IF DisconnectedByDestroy = {} THEN MsgEnter ELSE MsgCallEnded)
    /\ cred' = EmptyCredentials
    /\ storage' = NoStorage
    /\ DestroyCurrentDevice
    /\ UNCHANGED <<isLoading, callDuration, requests, shortResets>>

\* The Clear Invalid Credentials button, rendered when configured.
clearInvalidCredentials ==
    /\ UNCHANGED exchange
    /\ isConfigured
    /\ storage' = NoStorage
    /\ cred' = EmptyCredentials
    /\ isConfigured' = FALSE
    /\ statusMessage' = MsgPleaseValid
    /\ UNCHANGED <<callStatus, isLoading, callDuration, deviceVars, callVars>>

\* ------------------------------------------------------------------ calls
isButtonDisabled ==
    \/ isLoading
    \/ callStatus = "connecting"
    \/ callStatus = "call-ended"
    \/ ~isConfigured
    \/ ~areCredentialsComplete(cred)

\* The call button clicked while idle: handleButtonClick calls makeCall, which
\* runs up to its await of device.connect().
makeCall ==
    /\ UNCHANGED exchange
    /\ ~isButtonDisabled
    /\ callStatus = "idle"
    /\ IF deviceRef = 0 THEN
            /\ statusMessage' = MsgNoDevice
            /\ UNCHANGED <<callStatus, calls>>
       ELSE
            /\ Len(calls) < MaxCalls
            /\ callStatus' = "connecting"
            /\ statusMessage' = MsgConnecting
            /\ calls' = Append(calls, [st |-> "connecting", dev |-> deviceRef])
    /\ UNCHANGED <<isLoading, callDuration, credVars, deviceVars, currentCallRef,
                   timerRef, timers, resets, shortResets>>

\* hangupCall with a body that ends the call itself instead of leaving it to
\* the 'disconnect' listener.
hangupCallEndsCall ==
    /\ exchange' = exchange
    /\ ~isButtonDisabled
    /\ callStatus = "in-call"
    /\ IF currentCallRef # 0 THEN
            /\ calls' = [calls EXCEPT ![currentCallRef].st = "ended"]
            /\ callStatus' = "call-ended"
            /\ statusMessage' = MsgCallEnded
            /\ currentCallRef' = 0
            /\ StopTimer
            /\ resets' = resets + 1
            /\ UNCHANGED <<isLoading, callDuration, credVars, deviceVars, shortResets>>
       ELSE UNCHANGED vars

\* The call button clicked while in-call: handleButtonClick calls hangupCall,
\* which asks the SDK to disconnect the current call, if there is one: the
\* call is closing until the SDK answers with 'disconnect'. Nothing of the
\* component changes.
hangupCall ==
    /\ UNCHANGED exchange
    /\ ~isButtonDisabled
    /\ callStatus = "in-call"
    /\ calls' = IF currentCallRef # 0 /\ calls[currentCallRef].st \in {"ringing", "open"}
                THEN [calls EXCEPT ![currentCallRef].st = "closing"]
                ELSE calls
    /\ UNCHANGED <<uiVars, credVars, deviceVars, currentCallRef, timerRef, timers,
                   resets, shortResets>>

\* device.connect() resolves: makeCall stores the call and attaches its
\* listeners. A destroyed Device makes no call, and a Device that has an
\* active call refuses a second one.
ConnectResolved(c) ==
    /\ UNCHANGED exchange
    /\ calls[c].st = "connecting"
    /\ Alive(calls[c].dev)
    /\ DeviceCalls(calls[c].dev) = {}
    /\ calls' = [calls EXCEPT ![c].st = "ringing"]
    /\ currentCallRef' = c
    /\ UNCHANGED <<uiVars, credVars, deviceVars, timerRef, timers, resets, shortResets>>

\* device.connect() rejects: the catch block of makeCall.
ConnectRejected(c) ==
    /\ UNCHANGED exchange
    /\ calls[c].st = "connecting"
    /\ calls' = [calls EXCEPT ![c].st = "ended"]
    /\ callStatus' = "error"
    /\ statusMessage' = MsgCallFailed
    /\ shortResets' = shortResets + 1
    /\ UNCHANGED <<isLoading, callDuration, credVars, deviceVars, currentCallRef,
                   timerRef, timers, resets>>

\* The 'accept' listener: in-call, duration from zero, a new interval stored
\* in timerRef (the interval timerRef held, if any, keeps running). A call
\* of a destroyed Device is not accepted any more.
CallAccepted(c) ==
    /\ UNCHANGED exchange
    /\ calls[c].st = "ringing"
    /\ Alive(calls[c].dev)
    /\ calls' = [calls EXCEPT ![c].st = "open"]
    /\ callStatus' = "in-call"
    /\ statusMessage' = MsgInCall
    /\ callDuration' = 0
    /\ timerRef' = TRUE
    /\ timers' = timers + 1
    /\ UNCHANGED <<isLoading, credVars, deviceVars, currentCallRef, resets, shortResets>>

\* What the 'disconnect', 'cancel', 'reject' and 'error' listeners share: the
\* call reference cleared, the timer stopped, the reset to idle scheduled.
EndOfCall(status, msg) ==
    /\ callStatus' = status
    /\ statusMessage' = msg
    /\ currentCallRef' = 0
    /\ StopTimer
    /\ resets' = resets + 1
    /\ UNCHANGED <<isLoading, callDuration, credVars, deviceVars, shortResets>>

\* The 'disconnect' listener.
CallDisconnected(c) ==
    /\ UNCHANGED exchange
    /\ calls[c].st \in {"ringing", "open", "closing"}
    /\ calls' = [calls EXCEPT ![c].st = "ended"]
    /\ EndOfCall("call-ended", MsgCallEnded)

\* The 'cancel' listener.
CallCancelled(c) ==
    /\ UNCHANGED exchange
    /\ calls[c].st \in {"ringing", "open"}
    /\ calls' = [calls EXCEPT ![c].st = "ended"]
    /\ EndOfCall("call-ended", MsgCallCancelled)

\* The 'reject' listener.
CallRejected(c) ==
    /\ UNCHANGED exchange
    /\ calls[c].st \in {"ringing", "open"}
    /\ calls' = [calls EXCEPT ![c].st = "ended"]
    /\ EndOfCall("call-ended", MsgCallRejected)

\* The 'error' listener of a call.
CallError(c) ==
    /\ UNCHANGED exchange
    /\ calls[c].st \in {"ringing", "open"}
    /\ calls' = [calls EXCEPT ![c].st = "ended"]
    /\ EndOfCall("error", MsgCallError)

\* One run of an interval's callback: setCallDuration(prev => prev + 1).
Tick ==
    /\ UNCHANGED exchange
    /\ timers > 0
    /\ callDuration < MaxDuration
    /\ callDuration' = callDuration + 1
    /\ UNCHANGED <<callStatus, statusMessage, isLoading, credVars, deviceVars, callVars>>

\* The 3 s timeout of the 'disconnect', 'cancel', 'reject' and 'error' listeners.
ResetTimeout ==
    /\ UNCHANGED exchange
    /\ resets > 0
    /\ resets' = resets - 1
    /\ callStatus' = "idle"
    /\ statusMessage' = MsgReady
    /\ callDuration' = 0
    /\ UNCHANGED <<isLoading, credVars, deviceVars, currentCallRef, timerRef, calls,
                   timers, shortResets>>

\* The 3 s timeout of the catch block of makeCall.
ShortResetTimeout ==
    /\ UNCHANGED exchange
    /\ shortResets > 0
    /\ shortResets' = shortResets - 1
    /\ callStatus' = "idle"
    /\ statusMessage' = MsgReady
    /\ UNCHANGED <<isLoading, callDuration, credVars, deviceVars, currentCallRef,
                   timerRef, calls, timers, resets>>

\* ------------------------------------------------------------ specification
\* The calls that were asked to disconnect and have not got 'disconnect' yet.
HangupPending == {c \in CallIds : calls[c].st = "closing"}

\* The SDK emits 'disconnect' inside disconnect(): the listener of a call asked
\* to disconnect runs before anything else happens.
DisconnectEmitted ==
    HangupPending # {} => \E c \in HangupPending : CallDisconnected(c)

Next ==
    /\ \/ \E c \in FormInputs : EditForm(c)
       \/ ClickConfigure
       \/ \E r \in InFlight : ProbeFailed(r)
       \/ \E r \in InFlight : ProbeSucceeded(r)
       \/ \E r \in InFlight : TokenFailed(r)
       \/ \E r \in InFlight : TokenSucceeded(r)
       \/ \E d \in DeviceIds : DeviceRegistered(d)
       \/ \E d \in DeviceIds : RegisterRejected(d)
       \/ \E d \in DeviceIds : DeviceError(d)
       \/ \E d \in DeviceIds : DeviceIncoming(d)
       \/ resetConfiguration
       \/ clearInvalidCredentials
       \/ makeCall
       \/ hangupCall
       \/ \E c \in CallIds : ConnectResolved(c)
       \/ \E c \in CallIds : ConnectRejected(c)
       \/ \E c \in CallIds : CallAccepted(c)
       \/ \E c \in CallIds : CallDisconnected(c)
       \/ \E c \in CallIds : CallCancelled(c)
       \/ \E c \in CallIds : CallRejected(c)
       \/ \E c \in CallIds : CallError(c)
       \/ Tick
       \/ ResetTimeout
       \/ ShortResetTimeout
    /\ DisconnectEmitted

Spec == Init /\ [][Next]_vars

\* The page opened with nothing in localStorage.
SpecFresh == InitFresh /\ [][Next]_vars

\* handleConfigure applied to every content of the form, whether or not the
\* button that calls it is enabled, and the requests it sends completing.
NextFormat ==
    \/ \E c \in FormatInputs : EditForm(c)
    \/ handleConfigure
    \/ \E r \in InFlight : ProbeFailed(r)
    \/ \E r \in InFlight : ProbeSucceeded(r)
    \/ \E r \in InFlight : TokenFailed(r)

SpecFormat == Init /\ [][NextFormat]_vars

\* saveCredentialsToStorage applied to what the form holds.
saveCredentialsToStorage ==
    /\ UNCHANGED exchange
    /\ storage' = Stored(SavedCredentials(cred))
    /\ UNCHANGED <<uiVars, cred, isConfigured, deviceVars, callVars>>

\* The page loaded again: a new component, its mount effect run on what
\* localStorage holds.
ReloadPage ==
    /\ UNCHANGED exchange
    /\ callStatus' = "idle"
    /\ isLoading' = FALSE
    /\ callDuration' = 0
    /\ cred' = Loaded(storage).cred
    /\ isConfigured' = Loaded(storage).isConfigured
    /\ statusMessage' = Loaded(storage).statusMessage
    /\ storage' = Loaded(storage).storage
    /\ deviceRef' = 0
    /\ currentCallRef' = 0
    /\ timerRef' = FALSE
    /\ devices' = <<>>
    /\ calls' = <<>>
    /\ timers' = 0
    /\ requests' = EmptyBag
    /\ resets' = 0
    /\ shortResets' = 0

\* The page opened with nothing stored, with text that is no JSON, or with
\* an object that has the placeholder in a field.
InitStorage ==
    /\ RefsInit
    /\ exchange = NoExchange
    /\ \E st \in {NoStorage, GarbageStorage} \cup {Stored(c) : c \in PlaceholderInputs} :
            LoadOnMount(st)

\* Credentials typed, saved and loaded.
NextStorage ==
    \/ \E c \in StorageInputs : EditForm(c)
    \/ saveCredentialsToStorage
    \/ ReloadPage

SpecStorage == InitStorage /\ [][NextStorage]_vars

\* The requests sent to /api/token: any method, each member of the body left
\* out, empty or filled.
Methods == {"POST", "GET", "PUT"}
Bodies ==
    LET ok == Creds(AccountOk, KeyOk, SecretOk, AppOk)
    IN  UNION { { [f \in S |-> IF f \in E THEN Str0 ELSE ok[f]] : E \in SUBSET S }
                : S \in SUBSET Fields }

\* A request arrives at /api/token.
ReceiveRequest(method, body, signOk) ==
    /\ exchange' = [req |-> [method |-> method, body |-> body, signOk |-> signOk],
                    res |-> NoResponse]
    /\ UNCHANGED <<uiVars, credVars, deviceVars, callVars>>

\* The handler runs on the request and answers it.
HandleRequest ==
    /\ exchange.req # NoRequest
    /\ exchange.res = NoResponse
    /\ exchange' = [exchange EXCEPT
                     !.res = handler(exchange.req.method, exchange.req.body,
                                     exchange.req.signOk)]
    /\ UNCHANGED <<uiVars, credVars, deviceVars, callVars>>

NextToken ==
    \/ \E m \in Methods, b \in Bodies, signOk \in BOOLEAN : ReceiveRequest(m, b, signOk)
    \/ HandleRequest

\* The token service alone, called with any request.
SpecToken == InitFresh /\ [][NextToken]_vars

\* The timeouts set with setTimeout fire once their delay has passed.
SpecLive == Spec /\ WF_vars(ResetTimeout) /\ WF_vars(ShortResetTimeout)

\* A fetch of /api/token gets its response, or fails.
FetchCompletes ==
    \E r \in InFlight :
        ProbeFailed(r) \/ ProbeSucceeded(r) \/ TokenFailed(r) \/ TokenSucceeded(r)

\* device.register() resolves or rejects.
RegistrationCompletes ==
    \E d \in DeviceIds : DeviceRegistered(d) \/ RegisterRejected(d)

\* Every token request and every registration completes in the end.
SpecCompletes == Spec /\ WF_vars(FetchCompletes) /\ WF_vars(RegistrationCompletes)

\* ------------------------------------------------------------------ claims

\* C1: in every reachable state at most one Device that was constructed and
\* not yet destroyed exists.
C1_AtMostOneDeviceAlive == Cardinality(AliveDevices) <= 1

\* C2: initializeDevice started while a registered Device is referenced
\* destroys that Device before any other is constructed; a Device that
\* registers while it is the only one alive becomes the referenced one, so
\* that exactly one live, registered Device remains; and the referenced
\* Device is always a live, registered one.
C2_SecondInitReplacesFirst ==
    [][ /\ \A r \in InFlight :
            (ProbeSucceeded(r) /\ deviceRef # 0 /\ devices[deviceRef] = "registered")
                => /\ devices' = [devices EXCEPT ![deviceRef] = "destroyed"]
                   /\ deviceRef' = 0
        /\ \A d \in DeviceIds :
            (DeviceRegistered(d) /\ AliveDevices = {d})
                => /\ deviceRef' = d
                   /\ devices'[d] = "registered"
                   /\ AliveDevices' = {d}
        /\ deviceRef' # 0 => devices'[deviceRef'] = "registered"
      ]_vars

\* C2 witness: initializeDevice ran twice, the first Device is destroyed
\* and the second is registered and referenced.
C2_Witness ==
    /\ devices = <<"destroyed", "registered">>
    /\ deviceRef = 2

\* C3: whenever the call status is error it eventually becomes idle again.
C3_ErrorReturnsToIdle == (callStatus = "error") ~> (callStatus = "idle")

\* An accepted call gets 'disconnect', 'cancel' or 'reject'.
AcceptedCallEnds(c) ==
    /\ calls[c].st = "open"
    /\ CallDisconnected(c) \/ CallCancelled(c) \/ CallRejected(c)

\* C4: when an accepted call gets disconnect, cancel or reject, the status
\* becomes call-ended, the Call reference is cleared, no interval is left
\* counting the duration and a reset is scheduled; the reset, when it fires,
\* makes the status idle and the duration 0.
C4_AcceptedCallEnds ==
    [][ /\ \A c \in CallIds :
            AcceptedCallEnds(c)
                => /\ callStatus' = "call-ended"
                   /\ currentCallRef' = 0
                   /\ timerRef' = FALSE
                   /\ timers' = 0
                   /\ resets' = resets + 1
        /\ ResetTimeout => (callStatus' = "idle" /\ callDuration' = 0)
      ]_vars

\* The status changes of the state machine of the call controller.
AllowedStatusChanges ==
    {<<"idle", "connecting">>, <<"connecting", "in-call">>,
     <<"in-call", "call-ended">>, <<"call-ended", "idle">>, <<"error", "idle">>}
    \cup {<<s, "error">> : s \in {"idle", "connecting", "in-call", "call-ended"}}

\* C5: every change of the call status is one of idle->connecting,
\* connecting->in-call, in-call->call-ended, call-ended->idle, any->error and
\* error->idle.
C5_OnlyAllowedStatusChanges ==
    [][ callStatus' # callStatus => <<callStatus, callStatus'>> \in AllowedStatusChanges ]_vars

\* A field that is empty or holds nothing but whitespace.
IsBlank(s) == \A i \in 1..Len(s) : s[i] = " "
MissingField(c) == \E f \in Fields : IsBlank(c[f])

\* C6 as stated: configure with a credential set that has a missing field
\* writes nothing to storage and leaves isConfigured false.
C6_MissingFieldLeavesUnconfigured ==
    [][ (handleConfigure /\ MissingField(cred))
            => (storage' = storage /\ isConfigured' = FALSE) ]_vars

\* C6: configure with a credential set that has a missing field writes
\* nothing to storage, leaves isConfigured as it was and sends no request.
C6_MissingFieldChangesNothing ==
    [][ (handleConfigure /\ MissingField(cred))
            => /\ storage' = storage
               /\ isConfigured' = isConfigured
               /\ requests' = requests
               /\ statusMessage' = MsgFillAll ]_vars

\* C6 witness: configure has refused a set with a missing field while
\* credentials were stored and configured.
C6_Witness ==
    /\ MissingField(cred)
    /\ statusMessage = MsgFillAll
    /\ isConfigured
    /\ storage.kind = "json"

\* C7: when the probe of configure fails, storage, isConfigured, the call
\* status, the Device reference and the Devices are unchanged, no token
\* request is sent, the failure message is shown and isLoading is false.
C7_FailedProbeChangesNothing ==
    [][ \A r \in InFlight :
            ProbeFailed(r)
                => /\ storage' = storage
                   /\ isConfigured' = isConfigured
                   /\ callStatus' = callStatus
                   /\ deviceRef' = deviceRef
                   /\ devices' = devices
                   /\ requests' = Complete(r)
                   /\ statusMessage' = MsgValidationFailed
                   /\ isLoading' = FALSE ]_vars

\* C7 witness: a probe has failed with nothing stored before it.
C7_Witness ==
    /\ statusMessage = MsgValidationFailed
    /\ ~isLoading
    /\ storage = NoStorage
    /\ ~isConfigured

\* C8 as stated: the controller reaches idle with the message
\* "Ready to call" when the Device of a successful configure registers.
C8_RegisteredShowsReadyToCall ==
    [][ \A d \in DeviceIds :
            DeviceRegistered(d) => (callStatus' = "idle" /\ statusMessage' = MsgReady) ]_vars

\* C8: when the probe of configure succeeds, the probed set is stored,
\* isConfigured is true and initializeDevice has sent its token request with
\* that set; the token received, a Device is constructed; once it registers
\* the status is idle, the message is "Device ready - Click to call agent",
\* isLoading is false and the Device is the referenced one.
C8_SuccessfulConfigure ==
    [][ /\ \A r \in InFlight :
            ProbeSucceeded(r)
                => /\ storage' = Stored(r.cred)
                   /\ isConfigured'
                   /\ isLoading'
                   /\ requests' = Complete(r) (+) SetToBag({[kind |-> "token", cred |-> r.cred]})
        /\ \A r \in InFlight :
            TokenSucceeded(r)
                => /\ Len(devices') = Len(devices) + 1
                   /\ devices'[Len(devices')] = "registering"
        /\ \A d \in DeviceIds :
            DeviceRegistered(d)
                => /\ callStatus' = "idle"
                   /\ statusMessage' = MsgDeviceReady
                   /\ ~isLoading'
                   /\ deviceRef' = d
      ]_vars

\* C8 witness: configured from an empty form, the set is stored and the
\* Device is registered and referenced.
C8_Witness ==
    /\ storage = Stored(Creds(AccountOk, KeyOk, SecretOk, AppOk))
    /\ isConfigured
    /\ deviceRef # 0
    /\ devices[deviceRef] = "registered"
    /\ callStatus = "idle"
    /\ statusMessage = MsgDeviceReady

\* C9: from empty storage, every write to storage either empties it or
\* is made by a probe that succeeded and writes the set that was probed, and
\* what storage holds passes the format rules.
C9_StoredOnlyAfterProbe ==
    [][ /\ storage' # storage
            => \/ storage' = NoStorage
               \/ \E r \in InFlight : ProbeSucceeded(r) /\ storage' = Stored(r.cred)
        /\ storage'.kind = "json" => areCredentialsComplete(storage'.val)
      ]_vars

\* C9 witness: a set was stored while the form already held another one.
C9_Witness ==
    /\ storage.kind = "json"
    /\ cred # storage.val
    /\ isConfigured

\* The characters of s between its first and its last non-space character.
NonSpace(s) == {i \in 1..Len(s) : s[i] # " "}
Core(s) ==
    IF NonSpace(s) = {} THEN <<>>
    ELSE SubSeq(s, CHOOSE i \in NonSpace(s) : \A j \in NonSpace(s) : i <= j,
                   CHOOSE i \in NonSpace(s) : \A j \in NonSpace(s) : i >= j)

\* s breaks the rule of its field: not the prefix, or no more than 20 long.
BreaksRule(s, prefix) == ~StartsWith(s, prefix) \/ Len(s) <= MinLen

\* C10 as stated: a set with a value that, as typed, has not its prefix or
\* is no longer than 20 does not pass the format check.
C10_TypedValueJudged ==
    (\/ BreaksRule(cred.accountSid, PrefixAC)
     \/ BreaksRule(cred.apiKey, PrefixSK)
     \/ BreaksRule(cred.appSid, PrefixAP)) => ~areCredentialsComplete(cred)

\* C10: a set with a value that, the whitespace around it removed, has not
\* its prefix or is no longer than 20 does not pass the format check.
C10_TrimmedValueJudged ==
    (\/ BreaksRule(Core(cred.accountSid), PrefixAC)
     \/ BreaksRule(Core(cred.apiKey), PrefixSK)
     \/ BreaksRule(Core(cred.appSid), PrefixAP)) => ~areCredentialsComplete(cred)

\* C10 witness: configure has refused a set whose account SID is longer
\* than 20 as typed and 20 long without the whitespace after it.
C10_Witness ==
    /\ cred.accountSid = AccountShort \o StrSpace
    /\ ~MissingField(cred)
    /\ statusMessage = MsgFillAll

\* No field of c is the placeholder "***".
NoPlaceholderField(c) == \A f \in Fields : c[f] # Placeholder

\* C11: for a credential set with no field equal to "***", what the mount
\* effect loads from the storage written by save is that set, field by field.
C11_SaveLoadRoundTrip ==
    [][ /\ (saveCredentialsToStorage /\ NoPlaceholderField(cred))
            => \A f \in Fields : Loaded(storage').cred[f] = cred[f]
        /\ ReloadPage => \A f \in Fields : cred'[f] = Loaded(storage).cred[f]
      ]_vars

\* C11 witness: a set with a quote in it was saved, the form was emptied
\* and the page loaded again: the form holds the set.
C11_Witness ==
    /\ cred.accountSid = AccountShort \o <<Quote>>
    /\ storage = Stored(cred)
    /\ isConfigured
    /\ statusMessage = MsgReady

\* C12: the page loaded with a persisted set of which a field is "***":
\* storage is cleared, the credentials are empty and isConfigured is false.
C12_PlaceholderClearsOnLoad ==
    [][ (ReloadPage /\ storage.kind = "json" /\ ~NoPlaceholderField(storage.val))
            => /\ storage' = NoStorage
               /\ cred' = EmptyCredentials
               /\ ~isConfigured' ]_vars

\* The token service has answered the request it holds.
Answered == exchange.req # NoRequest /\ exchange.res # NoResponse

\* A credential member of the body is left out or empty.
MissingInBody(body) == \E f \in Fields : f \notin DOMAIN body \/ body[f] = <<>>

\* The response carries a token.
Minted(res) == "token" \in DOMAIN res

\* C13: a POST with a credential member left out or empty is answered 400
\* with the error "Missing required Twilio credentials in request body" and
\* without a token.
C13_MissingFieldIs400 ==
    (Answered /\ exchange.req.method = "POST" /\ MissingInBody(exchange.req.body))
        => /\ exchange.res.status = 400
           /\ ~Minted(exchange.res)
           /\ exchange.res.error = "Missing required Twilio credentials in request body"

\* C13 witness: a POST without apiSecret, the other three given, answered.
C13_Witness ==
    /\ Answered
    /\ exchange.req.method = "POST"
    /\ DOMAIN exchange.req.body = Fields \ {"apiSecret"}
    /\ \A f \in DOMAIN exchange.req.body : exchange.req.body[f] # <<>>
    /\ exchange.res.status = 400

\* C14: a request whose method is not POST is answered 405 with an error
\* and without a token, whatever its body.
C14_NotPostIs405 ==
    (Answered /\ exchange.req.method # "POST")
        => /\ exchange.res.status = 405
           /\ "error" \in DOMAIN exchange.res
           /\ ~Minted(exchange.res)

\* C14 witness: a GET with no member in its body, answered 405.
C14_Witness ==
    /\ Answered
    /\ exchange.req.method = "GET"
    /\ DOMAIN exchange.req.body = {}
    /\ exchange.res.status = 405

\* C15: a POST with the four members given is answered 200 with a token
\* (identity "web-client", one hour, outgoing only) and the identity
\* "web-client" if signing succeeds, and 500 with an error and no token if
\* it fails.
C15_PostWithAllFields ==
    (Answered /\ exchange.req.method = "POST" /\ ~MissingInBody(exchange.req.body))
        => IF exchange.req.signOk THEN
                /\ exchange.res.status = 200
                /\ Minted(exchange.res)
                /\ exchange.res.identity = "web-client"
                /\ exchange.res.token.identity = "web-client"
                /\ exchange.res.token.ttl = 3600
                /\ exchange.res.token.incomingAllow = FALSE
                /\ exchange.res.token.outgoingApplicationSid = exchange.req.body.appSid
           ELSE
                /\ exchange.res.status = 500
                /\ "error" \in DOMAIN exchange.res
                /\ ~Minted(exchange.res)

\* C15 witness: a POST with the four members given was answered with a token.
C15_Witness ==
    /\ Answered
    /\ exchange.req.method = "POST"
    /\ ~MissingInBody(exchange.req.body)
    /\ Minted(exchange.res)

\* The calls that were placed, have not ended and are on a Device that is
\* not destroyed.
CallsInProgress == {c \in LiveCalls : Alive(calls[c].dev)}

\* C16: at most one call that was placed and has not ended exists, and
\* once connect() has returned it, the Call reference points to it.
C16_AtMostOneLiveCall ==
    /\ Cardinality(CallsInProgress) <= 1
    /\ \A c \in CallsInProgress : calls[c].st # "connecting" => currentCallRef = c

\* C17: right after reset the credentials are empty, storage holds none,
\* isConfigured is false, the status is idle, the Device that was referenced
\* is destroyed and the reference is null.
C17_ResetReturnsToInitial ==
    [][ resetConfiguration
            => /\ cred' = EmptyCredentials
               /\ storage' = NoStorage
               /\ ~isConfigured'
               /\ callStatus' = "idle"
               /\ deviceRef' = 0
               /\ deviceRef # 0 => devices'[deviceRef] = "destroyed" ]_vars

\* C18: while the page is unconfigured, as it is from a reset until a later
\* configure succeeds, no Device is alive and none is referenced.
C18_NoDeviceAfterReset ==
    ~isConfigured => AliveDevices = {} /\ deviceRef = 0

\* C19: when the page has loaded a complete persisted set, and so starts
\* configured, a Device eventually becomes the referenced one, whatever the
\* user does or does not do.
C19_LoadedSetInitializesDevice == isConfigured => <>(deviceRef # 0)

AcceptedCalls == {c \in CallIds : calls[c].st \in {"open", "closing"}}

\* C21: at most one duration timer is running, and one is running only
\* while a call was accepted and has got no terminal event.
C21_NoTimerLeaked ==
    /\ timers <= 1
    /\ timers > 0 => AcceptedCalls # {}

\* C22: when initializeDevice fails, on its token request or on
\* registration, the status becomes error, isLoading becomes false, the
\* Device reference is left as it was and does not name the Device that
\* failed, and that Device is not left constructed and undestroyed.
C22_FailedInitLeavesNothing ==
    [][ /\ \A r \in InFlight :
            TokenFailed(r)
                => /\ callStatus' = "error"
                   /\ statusMessage' = MsgInitFailed
                   /\ ~isLoading'
                   /\ deviceRef' = deviceRef
                   /\ devices' = devices
        /\ \A d \in DeviceIds :
            RegisterRejected(d)
                => /\ callStatus' = "error"
                   /\ statusMessage' = MsgInitFailed
                   /\ ~isLoading'
                   /\ deviceRef' = deviceRef
                   /\ deviceRef' # d
                   /\ devices'[d] = "destroyed" ]_vars

\* C23: the page loaded is marked configured only if localStorage holds a
\* credential set of which the four fields are filled and that passes the
\* prefix and length rules.
C23_ConfiguredOnLoadOnlyIfValid ==
    [][ ReloadPage
            => (isConfigured'
                    => storage.kind = "json" /\ areCredentialsComplete(storage.val)) ]_vars

\* C24: when every token request and every registration completes, isLoading
\* set to true becomes false again, whatever is done in between.
C24_LoadingEnds == isLoading ~> ~isLoading

\* C24 witness: the configuration was reset while the token request of
\* initializeDevice was in flight, the request failed and isLoading is false.
C24_Witness ==
    /\ ~isLoading
    /\ ~isConfigured
    /\ storage = NoStorage
    /\ callStatus = "error"
    /\ statusMessage = MsgInitFailed
    /\ requests = EmptyBag

\* C25: an 'incoming' event of a Device leaves the call status, the message,
\* the duration, the Call reference, the duration timer, the Device
\* reference and the credentials as they are, and no call is accepted.
C25_IncomingChangesNothing ==
    [][ \A d \in DeviceIds :
            DeviceIncoming(d)
                => /\ UNCHANGED <<callStatus, statusMessage, callDuration, currentCallRef,
                                 timerRef, timers, deviceRef, devices, credVars>>
                   /\ calls' = calls ]_vars

\* C25 witness: the referenced Device is registered, so that it can get an
\* 'incoming' event, and the page is idle and ready to call.
C25_Witness ==
    /\ deviceRef # 0
    /\ devices[deviceRef] = "registered"
    /\ callStatus = "idle"
    /\ statusMessage = MsgDeviceReady

\* C26: whenever the status is in-call, the Call reference names a call that
\* was accepted and has got no terminal event, and timerRef holds a running
\* interval.
C26_InCallHasCallAndTimer ==
    callStatus = "in-call"
        => /\ currentCallRef \in AcceptedCalls
           /\ timerRef
           /\ timers > 0

\* C27: whenever the referenced Device is alive, isConfigured is true and
\* localStorage holds a complete credential set.
C27_DeviceImpliesConfigured ==
    (deviceRef # 0 /\ Alive(deviceRef))
        => /\ isConfigured
           /\ storage.kind = "json"
           /\ areCredentialsComplete(storage.val)
====
